---- MODULE Spec2Model ----
(***************************************************************************)
(* Model of PointfootController                                            *)
(* (ponitfootMujoco/rl_sim2sim/scripts/pointfoot_controller_mlp_history.py)*)
(*                                                                         *)
(* The controller is a fixed-rate loop: run() calls update() forever;      *)
(* update() dispatches on the mode (STAND / WALK), increments the tick     *)
(* counter and publishes the joint command.  Three transport callbacks     *)
(* mutate the shared sensor state at any time.                             *)
(*                                                                         *)
(* Python floats are modelled as exact rationals <<num, den>> (den > 0,    *)
(* lowest terms).  The configurations drawn in Init use loop periods for   *)
(* which the float accumulation of stand_percent is exact or agrees with   *)
(* the rational one.  Python lists and numpy arrays, which are 0-based,    *)
(* are functions over 0..n-1.                                              *)
(***************************************************************************)
EXTENDS Integers, Sequences, FiniteSets, TLC

(***************************************************************************)
(* Rational arithmetic (the float operators +, -, *, /, <, max, min).      *)
(***************************************************************************)
Abs(n) == IF n < 0 THEN -n ELSE n

RECURSIVE GCD(_, _)
GCD(a, b) == IF b = 0 THEN a ELSE GCD(b, a % b)

Rat(n, d) ==
    LET s == IF d < 0 THEN -1 ELSE 1
        g == GCD(Abs(n), Abs(d))
    IN  IF n = 0 THEN <<0, 1>> ELSE <<(s * n) \div g, (s * d) \div g>>

Zero == <<0, 1>>
One == <<1, 1>>
RInt(n) == <<n, 1>>

RAdd(a, b) == Rat(a[1] * b[2] + b[1] * a[2], a[2] * b[2])
RNeg(a) == <<-a[1], a[2]>>
RSub(a, b) == RAdd(a, RNeg(b))
RMul(a, b) == Rat(a[1] * b[1], a[2] * b[2])
\* b # 0: a zero divisor raises ZeroDivisionError in the code; no modelled
\* configuration has one.
RDiv(a, b) == Rat(a[1] * b[2], a[2] * b[1])
RLe(a, b) == a[1] * b[2] <= b[1] * a[2]
RLt(a, b) == a[1] * b[2] < b[1] * a[2]
\* Python's max(a, b) / min(a, b): the first argument wins a tie.
RMax(a, b) == IF RLt(a, b) THEN b ELSE a
RMin(a, b) == IF RLt(b, a) THEN b ELSE a
RAbs(a) == <<Abs(a[1]), a[2]>>
\* np.clip(x, lo, hi) on one element: minimum(maximum(x, lo), hi)
Clip(x, lo, hi) == RMin(RMax(x, lo), hi)

(***************************************************************************)
(* Bounds of the model.                                                    *)
(***************************************************************************)
\* update() is called at most MaxTicks times (the code loops forever).
MaxTicks == 7
\* The transport delivers at most MaxDeliveries messages in a run.
MaxDeliveries == 2
\* Statement by statement, update() is called at most MaxThreadTicks times.
MaxThreadTicks == 4
\* compute_gait_phase is followed over MaxGaitTicks consecutive ticks.
MaxGaitTicks == 60

(***************************************************************************)
(* Configuration (load_config).  The YAML file is an input: the values     *)
(* below are one configuration per field, except where Init draws from a   *)
(* set.                                                                    *)
(***************************************************************************)
\* len(joint_names)
joint_num == 6
Joints == 0 .. (joint_num - 1)
actions_size == joint_num

\* control block
stiffness == RInt(30)
damping == RInt(1)
user_torque_limit == RInt(20)
action_scale_pos == Rat(1, 2)

\* normalization block
clip_actions == RInt(1)
clip_observations == RInt(1)
obs_scale_ang_vel == Rat(1, 4)
obs_scale_dof_pos == RInt(1)
obs_scale_dof_vel == Rat(1, 20)

\* user_cmd_scales
lin_vel_x == RInt(1)
lin_vel_y == RInt(1)
ang_vel_yaw == RInt(1)

\* init_state.default_joint_angle, by joint (init_joint_angles[i] ==
\* init_state[joint_names[i]]); nonzero and pairwise distinct so that a pose
\* is told from the zero pose and a joint from another.
init_joint_angles ==
    [i \in Joints |-> CASE i = 0 -> Rat(1, 10)
                        [] i = 1 -> Rat(-1, 10)
                        [] i = 2 -> Rat(1, 5)
                        [] i = 3 -> Rat(-1, 5)
                        [] i = 4 -> Rat(3, 10)
                        [] OTHER -> Rat(-3, 10)]
init_state == init_joint_angles

\* Sets the configuration's loop parameters are drawn from.
StandDurations == {Rat(1, 2), Rat(3, 4)}
LoopFrequencies == {4}
Decimations == {2, 3}
HistoryLengths == {2}

ZeroVec(n) == [i \in 0 .. (n - 1) |-> Zero]


\* size block: observations_size per step (3+3+6+6+6+3+2+3) and latent_size
latent_size == 2
obs_step_size == 3 + 3 + 3 * joint_num + 3 + 2 + 3

\* imu_orientation_offset: all three angles 0, so that
\* R.from_euler('zyx', offset).as_matrix() is the identity matrix.
imu_offset_rot ==
    [r \in 0 .. 2 |-> [c \in 0 .. 2 |-> IF r = c THEN One ELSE Zero]]

(***************************************************************************)
(* Inputs: the messages the transport delivers and the outputs of the two  *)
(* ONNX sessions (opaque vector functions: any output of the set).         *)
(***************************************************************************)
Vec6(a, b, c, d, e, f) ==
    [i \in Joints |-> CASE i = 0 -> a [] i = 1 -> b [] i = 2 -> c
                        [] i = 3 -> d [] i = 4 -> e [] OTHER -> f]
Vec3(a, b, c) == [i \in 0 .. 2 |-> CASE i = 0 -> a [] i = 1 -> b [] OTHER -> c]
Vec4(a, b, c, d) ==
    [i \in 0 .. 3 |-> CASE i = 0 -> a [] i = 1 -> b [] i = 2 -> c [] OTHER -> d]

\* datatypes.RobotState messages, in the actuators' (physical) order.  The
\* first is the state q = [0.1 .. 0.6]; beyond index 5 a joint keeps the
\* value of index 5.  Its last joint moves fast enough (11 rad/s at 0.9 rad
\* from the default angle) for the torque bound to lie above clip_actions.
RobotStateMsgs ==
    { [q |-> Vec6(Rat(1, 10), Rat(1, 5), Rat(3, 10), Rat(2, 5), Rat(1, 2), Rat(3, 5)),
       dq |-> Vec6(RInt(1), RInt(2), RInt(3), RInt(4), RInt(5), RInt(11)),
       tau |-> Vec6(RInt(-1), RInt(-2), RInt(-3), RInt(-4), RInt(-5), RInt(-6))],
      [q |-> Vec6(Rat(-3, 5), Rat(-1, 2), Rat(-2, 5), Rat(-3, 10), Rat(-1, 5), Rat(-1, 10)),
       dq |-> Vec6(RInt(-6), RInt(-5), RInt(-4), RInt(-3), RInt(-2), RInt(-1)),
       tau |-> Vec6(RInt(6), RInt(5), RInt(4), RInt(3), RInt(2), RInt(1))] }

\* datatypes.ImuData messages; quat is (w, x, y, z) on the wire.
\* The quaternions are a quarter turn about x and one about y, not
\* normalised (from_quat normalises them).  The two messages differ in
\* every field.
ImuMsgs ==
    { [stamp |-> 1, acc |-> Vec3(Zero, RInt(1), Zero),
       gyro |-> Vec3(RInt(8), Zero, RInt(-2)),
       quat |-> Vec4(One, One, Zero, Zero)],
      [stamp |-> 2, acc |-> Vec3(RInt(1), Zero, Zero),
       gyro |-> Vec3(RInt(-4), RInt(2), Zero),
       quat |-> Vec4(RInt(2), Zero, RInt(2), Zero)] }

\* datatypes.SensorJoy messages (axes).
SensorJoyMsgs ==
    { [axes |-> Vec3(RInt(1), RInt(4), RInt(-1))],
      [axes |-> Vec3(RInt(-2), RInt(-1), RInt(3))] }

\* policy_session.run outputs (flattened), before any clipping.
PolicyOutputs ==
    { Vec6(RInt(2), RInt(-2), Rat(1, 2), RInt(2), RInt(-2), Rat(-1, 4)),
      Vec6(RInt(-2), RInt(2), Rat(-1, 2), RInt(-2), RInt(2), Rat(1, 4)) }

\* encoder_session.run outputs (flattened).
EncoderOutputs == { [i \in 0 .. (latent_size - 1) |-> Rat(3, 2)] }

(***************************************************************************)
(* State.                                                                  *)
(***************************************************************************)
VARIABLES
    \* configuration drawn by load_config
    stand_duration, loop_frequency, decimation, history_length,
    \* controller fields
    mode, loop_count, stand_percent, default_joint_angles,
    actions, last_actions, observations, commands, gait_command,
    robot_cmd, robot_state, robot_state_tmp, imu_data, imu_data_tmp,
    base_ang_vel_queue, projected_gravity_queue, joint_positions_queue,
    joint_velocities_queue, actions_queue, scaled_commands_queue,
    gait_phase_queue, gait_command_queue,
    \* control flow of run(): FALSE until run() has executed its preamble
    running,
    \* observers of the external effects
    published,      \* the command last handed to publishRobotCmd (<<>>: none yet)
    pub_count,      \* number of publishRobotCmd calls
    encoder_input,  \* the vector last handed to encoder_session.run
    policy_input,   \* the vector last handed to policy_session.run
    cmd_writes,     \* the writes set_joint_command_aligned made in the last tick
    infer_log,      \* loop_count of every tick that ran the inference pipeline
    gait_index,     \* the tick and gait_indices of the last compute_gait_phase
    deliveries,     \* number of messages the transport has delivered
    \* the threads, statement by statement
    pc,             \* the control thread's position in update()
    transport,      \* the callback the transport thread is executing
    commands_start, \* self.commands as it was when the current tick began
    terminated      \* an exception has left run(): the process is gone

cfg_vars == <<stand_duration, loop_frequency, decimation, history_length>>
\* What compute_observation pushes and what compute_gait_phase computed
\* for it.
queue_vars ==
    <<base_ang_vel_queue, projected_gravity_queue, joint_positions_queue,
      joint_velocities_queue, actions_queue, scaled_commands_queue,
      gait_phase_queue, gait_command_queue, gait_index>>
sensor_vars == <<robot_state, imu_data, commands, deliveries>>
loop_vars ==
    <<mode, loop_count, stand_percent, default_joint_angles, actions,
      last_actions, observations, gait_command, robot_cmd, robot_state_tmp,
      imu_data_tmp, running, published, pub_count, encoder_input,
      policy_input, cmd_writes, infer_log>>
thread_vars == <<pc, transport, commands_start>>
vars == <<cfg_vars, queue_vars, sensor_vars, loop_vars, thread_vars, terminated>>

(***************************************************************************)
(* __init__ and load_config: the state after construction.                 *)
(***************************************************************************)
InitRobotCmd ==
    [mode |-> ZeroVec(joint_num), q |-> ZeroVec(joint_num),
     dq |-> ZeroVec(joint_num), tau |-> ZeroVec(joint_num),
     Kp |-> [i \in Joints |-> stiffness], Kd |-> [i \in Joints |-> damping]]

InitRobotState ==
    [q |-> ZeroVec(joint_num), dq |-> ZeroVec(joint_num), tau |-> ZeroVec(joint_num)]

\* datatypes.ImuData() with quat set to (0, 0, 0, 1); the fields __init__
\* leaves alone are taken as zero.
InitImuData ==
    [stamp |-> 0, acc |-> ZeroVec(3), gyro |-> ZeroVec(3),
     quat |-> Vec4(Zero, Zero, Zero, One)]

\* compute_gait_phase has not been called.
NoGaitIndex == [t |-> -1, frac |-> Zero]

\* The transport thread is between two callbacks.
NoCallback == [kind |-> "none", step |-> 0, msg |-> <<>>]

\* The fields other than the loop frequency and the tick counter.
InitFields ==
    /\ stand_duration \in StandDurations
    /\ decimation \in Decimations
    /\ history_length \in HistoryLengths
    /\ mode = "STAND"
    /\ stand_percent = Zero
    /\ default_joint_angles = <<>>
    /\ actions = ZeroVec(actions_size)
    /\ last_actions = ZeroVec(actions_size)
    /\ observations = [i \in 1 .. (obs_step_size * history_length + latent_size) |-> Zero]
    /\ commands = ZeroVec(3)
    /\ gait_command = Vec3(RInt(2), Rat(1, 2), Rat(1, 2))
    /\ robot_cmd = InitRobotCmd
    /\ robot_state = InitRobotState
    /\ robot_state_tmp = InitRobotState
    /\ imu_data = InitImuData
    /\ imu_data_tmp = InitImuData
    /\ base_ang_vel_queue = <<>>
    /\ projected_gravity_queue = <<>>
    /\ joint_positions_queue = <<>>
    /\ joint_velocities_queue = <<>>
    /\ actions_queue = <<>>
    /\ scaled_commands_queue = <<>>
    /\ gait_phase_queue = <<>>
    /\ gait_command_queue = <<>>
    /\ running = FALSE
    /\ published = <<>>
    /\ pub_count = 0
    /\ encoder_input = <<>>
    /\ policy_input = <<>>
    /\ cmd_writes = <<>>
    /\ infer_log = <<>>
    /\ gait_index = NoGaitIndex
    /\ deliveries = 0
    /\ pc = "idle"
    /\ transport = NoCallback
    /\ commands_start = ZeroVec(3)
    /\ terminated = FALSE

Init ==
    /\ loop_frequency \in LoopFrequencies
    /\ loop_count = 0
    /\ InitFields

(***************************************************************************)
(* Transport callbacks.                                                    *)
(***************************************************************************)
robot_state_callback(msg) ==
    /\ ~terminated
    /\ deliveries < MaxDeliveries
    /\ robot_state' = msg
    /\ deliveries' = deliveries + 1
    /\ UNCHANGED <<imu_data, commands, cfg_vars, queue_vars, loop_vars, thread_vars,
                   terminated>>

\* The stored quaternion is the message's rotated to (x, y, z, w).
imu_data_callback(msg) ==
    /\ ~terminated
    /\ deliveries < MaxDeliveries
    /\ imu_data' = [stamp |-> msg.stamp, acc |-> msg.acc, gyro |-> msg.gyro,
                    quat |-> Vec4(msg.quat[1], msg.quat[2], msg.quat[3], msg.quat[0])]
    /\ deliveries' = deliveries + 1
    /\ UNCHANGED <<robot_state, commands, cfg_vars, queue_vars, loop_vars,
                   thread_vars, terminated>>

sensor_joy_callback(msg) ==
    /\ ~terminated
    /\ deliveries < MaxDeliveries
    /\ commands' = Vec3(RMul(msg.axes[1], Rat(1, 2)),
                        RMul(msg.axes[0], Rat(1, 2)),
                        RMul(msg.axes[2], Rat(1, 2)))
    /\ deliveries' = deliveries + 1
    /\ UNCHANGED <<robot_state, imu_data, cfg_vars, queue_vars, loop_vars,
                   thread_vars, terminated>>

(***************************************************************************)
(* run(): the preamble before the loop.                                    *)
(***************************************************************************)
StandIncrement == RDiv(One, RMul(stand_duration, RInt(loop_frequency)))

run ==
    /\ ~running
    /\ ~terminated
    /\ default_joint_angles' = ZeroVec(joint_num)
    /\ stand_percent' = RAdd(stand_percent, StandIncrement)
    /\ mode' = "STAND"
    /\ loop_count' = 0
    /\ running' = TRUE
    /\ UNCHANGED <<actions, last_actions, observations, gait_command, robot_cmd,
                   robot_state_tmp, imu_data_tmp, published, pub_count,
                   encoder_input, policy_input, cmd_writes, infer_log,
                   cfg_vars, queue_vars, sensor_vars, thread_vars, terminated>>


(***************************************************************************)
(* Joint remapping.                                                        *)
(***************************************************************************)
\* Mutant of AlignVec: the four assignments read the copy being built, not
\* the argument, so index 2 takes the value already stored at index 1.
AlignVecChained(v) ==
    LET a1 == [v EXCEPT ![1] = v[3]]
        a2 == [a1 EXCEPT ![2] = a1[1]]
        a3 == [a2 EXCEPT ![3] = a2[4]]
    IN  [a3 EXCEPT ![4] = a3[2]]

\* Mutant of AlignVec: a symmetric swap 1 <-> 3, 2 <-> 4.
AlignVecSwap(v) == [v EXCEPT ![1] = v[3], ![3] = v[1], ![2] = v[4], ![4] = v[2]]

\* align_robot_state: a deep copy whose entries 1..4 are then overwritten
\* from the argument (never from the copy).
AlignVec(v) == [v EXCEPT ![1] = v[3], ![2] = v[1], ![3] = v[4], ![4] = v[2]]

align_robot_state(rs) ==
    [q |-> AlignVec(rs.q), dq |-> AlignVec(rs.dq), tau |-> AlignVec(rs.tau)]

\* Mutant of WriteCmd: the assignment also stores the position as the
\* slot's feed-forward torque.
WriteCmdAndTorque(st, slot, joint_index, position) ==
    [st EXCEPT !.cmd.q[slot] = position,
               !.cmd.tau[slot] = position,
               !.writes = Append(@, [joint |-> joint_index, slot |-> slot,
                                     position |-> position])]

\* One assignment robot_cmd.q[slot] = position, logged.  st carries the
\* command under construction and the log of the tick's writes.
WriteCmd(st, slot, joint_index, position) ==
    [st EXCEPT !.cmd.q[slot] = position,
               !.writes = Append(@, [joint |-> joint_index, slot |-> slot,
                                     position |-> position])]

\* Mutant of set_joint_command_aligned: the unaligned set_joint_command.
set_joint_command(st, joint_index, position) ==
    WriteCmd(st, joint_index, joint_index, position)

set_joint_command_aligned(st, joint_index, position) ==
    CASE joint_index = 2 -> WriteCmd(st, 1, joint_index, position)
      [] joint_index = 4 -> WriteCmd(st, 2, joint_index, position)
      [] joint_index = 1 -> WriteCmd(st, 3, joint_index, position)
      [] joint_index = 3 -> WriteCmd(st, 4, joint_index, position)
      [] OTHER -> WriteCmd(st, joint_index, joint_index, position)

(***************************************************************************)
(* handle_stand_mode.                                                      *)
(***************************************************************************)
StandPosDes(j) ==
    RAdd(RMul(default_joint_angles[j], RSub(One, stand_percent)),
         RMul(init_state[j], stand_percent))

RECURSIVE StandLoop(_, _)
StandLoop(st, j) ==
    IF j >= joint_num THEN st
    ELSE StandLoop(set_joint_command_aligned(st, j, StandPosDes(j)), j + 1)

\* Mutant of StandInterpolates: <= for <.
StandInterpolatesLe == RLe(stand_percent, One)

\* if self.stand_percent < 1
StandInterpolates == RLt(stand_percent, One)

\* Mutant of SwitchToWalk: the switching tick also writes the final pose.
SwitchToWalkAtPose ==
    LET st == StandLoop([cmd |-> robot_cmd, writes |-> <<>>], 0)
    IN  /\ mode' = "WALK"
        /\ robot_cmd' = st.cmd
        /\ cmd_writes' = st.writes
        /\ UNCHANGED stand_percent

\* else: self.mode = "WALK"
SwitchToWalk ==
    /\ mode' = "WALK"
    /\ cmd_writes' = <<>>
    /\ UNCHANGED <<robot_cmd, stand_percent>>

handle_stand_mode ==
    /\ IF StandInterpolates
       THEN LET st == StandLoop([cmd |-> robot_cmd, writes |-> <<>>], 0)
            IN  /\ robot_cmd' = st.cmd
                /\ cmd_writes' = st.writes
                /\ stand_percent' = RAdd(stand_percent, StandIncrement)
                /\ mode' = mode
       ELSE SwitchToWalk
    /\ UNCHANGED <<actions, last_actions, observations, robot_state_tmp,
                   imu_data_tmp, encoder_input, policy_input, infer_log,
                   queue_vars>>


(***************************************************************************)
(* compute_gait_phase.                                                     *)
(***************************************************************************)
Floor(a) == a[1] \div a[2]

RECURSIVE Log2Floor(_)
Log2Floor(n) == IF n < 2 THEN 0 ELSE 1 + Log2Floor(n \div 2)

RECURSIVE Pow2(_)
Pow2(k) == IF k = 0 THEN 1 ELSE 2 * Pow2(k - 1)

\* The first k binary digits of rem / d after m, for 0 <= rem < d, and what
\* remains: <<m 2^k + floor(rem 2^k / d), (rem 2^k) mod d>>.
RECURSIVE BinaryDigits(_, _, _, _)
BinaryDigits(m, rem, d, k) ==
    IF k = 0 THEN <<m, rem>>
    ELSE BinaryDigits(2 * m + (IF 2 * rem >= d THEN 1 ELSE 0), (2 * rem) % d, d, k - 1)

\* The number of doublings that take rem / d (0 < rem < d) to 1 or above.
RECURSIVE LeadingShift(_, _)
LeadingShift(rem, d) == IF rem >= d THEN 0 ELSE 1 + LeadingShift(2 * rem, d)

\* torch.tensor(x, dtype=torch.float32) of a double x >= 0: x rounded to 24
\* significant binary digits, ties to even.  The rounding of the double
\* operations before it is below this resolution and is left out.  The
\* result is a rational of 31-bit terms, so x is 0, or at least 2^-7, and
\* below 2^24.
F32(x) ==
    LET q == x[1] \div x[2]
        r == x[1] % x[2]
        k == IF q >= 1 THEN 23 - Log2Floor(q) ELSE 23 + LeadingShift(r, x[2])
        md == BinaryDigits(q, r, x[2], k)
        up == 2 * md[2] > x[2] \/ (2 * md[2] = x[2] /\ md[1] % 2 = 1)
    IN  IF r = 0 THEN x
        ELSE Rat(IF up THEN md[1] + 1 ELSE md[1], Pow2(k))

\* torch.remainder of the float32 tensor of
\* (loop_count / loop_frequency) * gait_command[0] and 1.0, which is exact.
GaitFraction(t, f, g) ==
    LET x == F32(RMul(Rat(t, f), g))
    IN  RSub(x, RInt(Floor(x)))

gait_indices(t) == GaitFraction(t, loop_frequency, gait_command[0])

\* (sin(2 pi f), cos(2 pi f)) at the quarter turns, the only fractions the
\* modelled loop frequencies give; exact values stand for the float ones.
SinCos2Pi(f) ==
    CASE f = Zero -> <<Zero, One>>
      [] f = Rat(1, 4) -> <<One, Zero>>
      [] f = Rat(1, 2) -> <<Zero, RInt(-1)>>
      [] f = Rat(3, 4) -> <<RInt(-1), Zero>>

compute_gait_phase(t) ==
    LET sc == SinCos2Pi(gait_indices(t))
    IN  [i \in 0 .. 1 |-> sc[i + 1]]

(***************************************************************************)
(* compute_observation.                                                    *)
(***************************************************************************)
MatVec(m, v) ==
    [r \in 0 .. 2 |->
        RAdd(RAdd(RMul(m[r][0], v[0]), RMul(m[r][1], v[1])), RMul(m[r][2], v[2]))]

\* R.from_quat(quat) (which normalises) -> as_euler -> from_euler -> inv()
\* -> as_matrix(), applied to (0, 0, -1): minus the third row of the
\* rotation matrix of quat = (x, y, z, w).
ProjectGravity(quat) ==
    LET x == quat[0]  y == quat[1]  z == quat[2]  w == quat[3]
        n2 == RAdd(RAdd(RMul(x, x), RMul(y, y)), RAdd(RMul(z, z), RMul(w, w)))
        two == RInt(2)
    IN  Vec3(RNeg(RDiv(RMul(two, RSub(RMul(x, z), RMul(w, y))), n2)),
             RNeg(RDiv(RMul(two, RAdd(RMul(y, z), RMul(w, x))), n2)),
             RNeg(RSub(One, RDiv(RMul(two, RAdd(RMul(x, x), RMul(y, y))), n2))))

Scale(v, k) == [i \in DOMAIN v |-> RMul(v[i], k)]

\* Mutant of DequeAppend: a list, which never evicts.
ListAppend(q, x, n) == Append(q, x)

\* deque(maxlen = n).append(x)
DequeAppend(q, x, n) ==
    IF n = 0 THEN q
    ELSE IF Len(q) >= n THEN Append(Tail(q), x)
    ELSE Append(q, x)

\* The eight values one observation step pushes, from the tick's snapshots.
\* rs_tmp and imu_tmp are the tick's robot_state_tmp and imu_data_tmp.
ObsSample(rs_tmp, imu_tmp) ==
    LET base_ang_vel == MatVec(imu_offset_rot, imu_tmp.gyro)
        projected_gravity == MatVec(imu_offset_rot, ProjectGravity(imu_tmp.quat))
        joint_positions == rs_tmp.q
        joint_velocities == rs_tmp.dq
        command_scaler == Vec3(lin_vel_x, lin_vel_y, ang_vel_yaw)
    IN  [base_ang_vel |-> Scale(base_ang_vel, obs_scale_ang_vel),
         projected_gravity |-> projected_gravity,
         joint_positions |->
             [i \in Joints |-> RMul(RSub(joint_positions[i], init_joint_angles[i]),
                                     obs_scale_dof_pos)],
         joint_velocities |-> Scale(joint_velocities, obs_scale_dof_vel),
         actions |-> last_actions,
         scaled_commands |-> [i \in 0 .. 2 |-> RMul(command_scaler[i], commands[i])],
         gait_phase |-> compute_gait_phase(loop_count),
         gait_command |-> gait_command]

Queues ==
    [base_ang_vel |-> base_ang_vel_queue,
     projected_gravity |-> projected_gravity_queue,
     joint_positions |-> joint_positions_queue,
     joint_velocities |-> joint_velocities_queue,
     actions |-> actions_queue,
     scaled_commands |-> scaled_commands_queue,
     gait_phase |-> gait_phase_queue,
     gait_command |-> gait_command_queue]

\* One append of the sample's eight values to the eight queues.
AppendAll(qs, sample) ==
    [base_ang_vel |->
         DequeAppend(qs.base_ang_vel, sample.base_ang_vel, history_length),
     projected_gravity |->
         DequeAppend(qs.projected_gravity, sample.projected_gravity, history_length),
     joint_positions |->
         DequeAppend(qs.joint_positions, sample.joint_positions, history_length),
     joint_velocities |->
         DequeAppend(qs.joint_velocities, sample.joint_velocities, history_length),
     actions |-> DequeAppend(qs.actions, sample.actions, history_length),
     scaled_commands |->
         DequeAppend(qs.scaled_commands, sample.scaled_commands, history_length),
     gait_phase |-> DequeAppend(qs.gait_phase, sample.gait_phase, history_length),
     gait_command |-> DequeAppend(qs.gait_command, sample.gait_command, history_length)]

\* Mutant of Prefill: the buffers are padded with zeros, not with the
\* current sample.
PrefillZeros(qs, sample) ==
    LET zeros == [name \in DOMAIN sample |-> [i \in DOMAIN sample[name] |-> Zero]]
        pad == [name \in DOMAIN qs |-> [k \in 1 .. history_length |-> zeros[name]]]
    IN  IF Len(qs.base_ang_vel) < history_length THEN pad ELSE qs

\* while len(base_ang_vel_queue) < history_length: append to all eight
RECURSIVE Prefill(_, _)
Prefill(qs, sample) ==
    IF Len(qs.base_ang_vel) < history_length
    THEN Prefill(AppendAll(qs, sample), sample)
    ELSE qs

VecToSeq(v) == [k \in 1 .. Cardinality(DOMAIN v) |-> v[k - 1]]

\* np.array(queue).flatten()
RECURSIVE Flatten(_)
Flatten(q) == IF q = <<>> THEN <<>> ELSE VecToSeq(Head(q)) \o Flatten(Tail(q))

HistoryObs(qs) ==
    Flatten(qs.base_ang_vel) \o Flatten(qs.projected_gravity)
        \o Flatten(qs.joint_positions) \o Flatten(qs.joint_velocities)
        \o Flatten(qs.actions) \o Flatten(qs.scaled_commands)
        \o Flatten(qs.gait_phase) \o Flatten(qs.gait_command)

ClipSeq(v, bound) == [k \in DOMAIN v |-> Clip(v[k], RNeg(bound), bound)]

\* compute_observation with the encoder's answer `latent`
compute_observation(rs_tmp, imu_tmp, latent) ==
    LET sample == ObsSample(rs_tmp, imu_tmp)
        qs == AppendAll(Prefill(Queues, sample), sample)
        history_obs == HistoryObs(qs)
    IN  /\ base_ang_vel_queue' = qs.base_ang_vel
        /\ projected_gravity_queue' = qs.projected_gravity
        /\ joint_positions_queue' = qs.joint_positions
        /\ joint_velocities_queue' = qs.joint_velocities
        /\ actions_queue' = qs.actions
        /\ scaled_commands_queue' = qs.scaled_commands
        /\ gait_phase_queue' = qs.gait_phase
        /\ gait_command_queue' = qs.gait_command
        /\ gait_index' = [t |-> loop_count, frac |-> gait_indices(loop_count)]
        /\ encoder_input' = ClipSeq(history_obs, clip_observations)
        /\ observations' = history_obs \o VecToSeq(latent)

(***************************************************************************)
(* handle_walk_mode.                                                       *)
(***************************************************************************)
\* Mutant of RunsInference: the counter tested after its increment.
RunsInferenceNext == (loop_count + 1) % decimation = 0

\* if self.loop_count % self.control_cfg['decimation'] == 0
RunsInference == loop_count % decimation = 0

\* Mutant of ClampAction: the damping term with the opposite sign.
ClampActionDampingSign(a, q, dq, q0) ==
    LET action_min == RSub(RSub(q, q0),
                           RDiv(RAdd(RMul(damping, dq), user_torque_limit), stiffness))
        action_max == RSub(RSub(q, q0),
                           RDiv(RSub(RMul(damping, dq), user_torque_limit), stiffness))
    IN  RMax(RDiv(action_min, action_scale_pos),
             RMin(RDiv(action_max, action_scale_pos), a))

\* The torque-derived clamp of one joint's action.
ClampAction(a, q, dq, q0) ==
    LET action_min == RAdd(RSub(q, q0),
                           RDiv(RSub(RMul(damping, dq), user_torque_limit), stiffness))
        action_max == RAdd(RSub(q, q0),
                           RDiv(RAdd(RMul(damping, dq), user_torque_limit), stiffness))
    IN  RMax(RDiv(action_min, action_scale_pos),
             RMin(RDiv(action_max, action_scale_pos), a))

\* for i in range(len(joint_pos)); st carries actions, last_actions, the
\* command and the log of writes.
RECURSIVE WalkLoop(_, _, _, _)
WalkLoop(st, i, joint_pos, joint_vel) ==
    IF i >= Cardinality(DOMAIN joint_pos) THEN st
    ELSE LET a == ClampAction(st.actions[i], joint_pos[i], joint_vel[i],
                              init_joint_angles[i])
             pos_des == RAdd(RMul(a, action_scale_pos), init_joint_angles[i])
             st1 == [st EXCEPT !.actions[i] = a]
             st2 == set_joint_command_aligned(st1, i, pos_des)
             st3 == [st2 EXCEPT !.last_actions[i] = a]
         IN  WalkLoop(st3, i + 1, joint_pos, joint_vel)

\* np.clip(self.actions, -clip_actions, clip_actions)
ClipActions(v) == [i \in DOMAIN v |-> Clip(v[i], RNeg(clip_actions), clip_actions)]

\* Mutant of WalkModeAfter: a walk tick that does not infer falls back to
\* STAND.
WalkModeFallsBack == IF RunsInference THEN mode ELSE "STAND"

\* handle_walk_mode never assigns self.mode.
WalkModeAfter == mode

\* handle_walk_mode after its two snapshots (lines 190-221), on the
\* snapshots rs_tmp and imu_tmp.
WalkBody(rs_tmp, imu_tmp) ==
    \E latent \in EncoderOutputs, output \in PolicyOutputs :
        LET acts == IF RunsInference THEN ClipActions(output) ELSE actions
            st == WalkLoop([actions |-> acts, last_actions |-> last_actions,
                            cmd |-> robot_cmd, writes |-> <<>>],
                           0, rs_tmp.q, rs_tmp.dq)
        IN  /\ IF RunsInference
               THEN /\ compute_observation(rs_tmp, imu_tmp, latent)
                    /\ policy_input' = observations'
                    /\ infer_log' = Append(infer_log, loop_count)
               ELSE UNCHANGED <<observations, encoder_input, policy_input,
                                infer_log, queue_vars>>
            /\ actions' = st.actions
            /\ last_actions' = st.last_actions
            /\ robot_cmd' = st.cmd
            /\ cmd_writes' = st.writes
            /\ mode' = WalkModeAfter
            /\ UNCHANGED stand_percent

handle_walk_mode ==
    LET rs_tmp == align_robot_state(robot_state)
        imu_tmp == imu_data
    IN  /\ robot_state_tmp' = rs_tmp
        /\ imu_data_tmp' = imu_tmp
        /\ WalkBody(rs_tmp, imu_tmp)

(***************************************************************************)
(* update and the loop of run().                                           *)
(***************************************************************************)
update ==
    /\ running
    /\ ~terminated
    /\ loop_count < MaxTicks
    /\ IF mode = "STAND" THEN handle_stand_mode ELSE handle_walk_mode
    /\ loop_count' = loop_count + 1
    /\ published' = robot_cmd'
    /\ pub_count' = pub_count + 1
    /\ UNCHANGED <<default_joint_angles, gait_command, running, cfg_vars, sensor_vars,
                   thread_vars, terminated>>

(***************************************************************************)
(* compute_gait_phase as a function of the tick counter: the loop          *)
(* frequency and the first tick are drawn, and each step computes the      *)
(* phase of one tick.  compute_gait_phase reads loop_count, loop_frequency *)
(* and gait_command[0] and nothing else.                                   *)
(***************************************************************************)
\* <<loop_frequency, first tick>>: the first ticks of a run, the ticks up
\* to 1250 at 500 Hz, and the ticks after 32 768 000 (18.2 hours at 500 Hz).
GaitInputs == {<<4, 0>>, <<5, 0>>, <<500, 1200>>, <<500, 32768000>>}

InitGait ==
    /\ \E in \in GaitInputs : loop_frequency = in[1] /\ loop_count = in[2]
    /\ InitFields

compute_gait_phase_tick ==
    /\ \E in \in GaitInputs :
          /\ loop_frequency = in[1]
          /\ in[2] <= loop_count
          /\ loop_count < in[2] + MaxGaitTicks
    /\ gait_index' = [t |-> loop_count, frac |-> gait_indices(loop_count)]
    /\ loop_count' = loop_count + 1
    /\ UNCHANGED <<base_ang_vel_queue, projected_gravity_queue,
                   joint_positions_queue, joint_velocities_queue, actions_queue,
                   scaled_commands_queue, gait_phase_queue, gait_command_queue,
                   mode, stand_percent, default_joint_angles, actions,
                   last_actions, observations, gait_command, robot_cmd,
                   robot_state_tmp, imu_data_tmp, running, published, pub_count,
                   encoder_input, policy_input, cmd_writes, infer_log, cfg_vars,
                   sensor_vars, thread_vars, terminated>>

NextGait == compute_gait_phase_tick

SpecGait == InitGait /\ [][NextGait]_vars

(***************************************************************************)
(* update() in which an ONNX session raises.                               *)
(***************************************************************************)
\* Mutant of UncaughtLeavesRun: run() catches the exception and goes on
\* with the next call of update().
CaughtInRun == FALSE

\* Neither compute_actions, update nor run has a try: an exception of
\* session.run leaves run() and ends the process.
UncaughtLeavesRun == TRUE

\* The call of the encoder (stage "encoder", line 250) or of the policy
\* (stage "policy", line 343) raises: the statements before it have run,
\* those after it have not.
update_raises(stage) ==
    /\ running
    /\ ~terminated
    /\ loop_count < MaxTicks
    /\ mode = "WALK"
    /\ RunsInference
    /\ LET rs_tmp == align_robot_state(robot_state)
           imu_tmp == imu_data
           sample == ObsSample(rs_tmp, imu_tmp)
           qs == AppendAll(Prefill(Queues, sample), sample)
       IN  /\ robot_state_tmp' = rs_tmp
           /\ imu_data_tmp' = imu_tmp
           /\ IF stage = "policy"
              THEN /\ \E latent \in EncoderOutputs :
                          compute_observation(rs_tmp, imu_tmp, latent)
                   /\ policy_input' = observations'
              ELSE /\ base_ang_vel_queue' = qs.base_ang_vel
                   /\ projected_gravity_queue' = qs.projected_gravity
                   /\ joint_positions_queue' = qs.joint_positions
                   /\ joint_velocities_queue' = qs.joint_velocities
                   /\ actions_queue' = qs.actions
                   /\ scaled_commands_queue' = qs.scaled_commands
                   /\ gait_phase_queue' = qs.gait_phase
                   /\ gait_command_queue' = qs.gait_command
                   /\ gait_index' = [t |-> loop_count, frac |-> gait_indices(loop_count)]
                   /\ encoder_input' = ClipSeq(HistoryObs(qs), clip_observations)
                   /\ UNCHANGED <<observations, policy_input>>
    /\ infer_log' = Append(infer_log, loop_count)
    /\ terminated' = UncaughtLeavesRun
    /\ UNCHANGED <<mode, loop_count, stand_percent, default_joint_angles, actions,
                   last_actions, gait_command, robot_cmd, running, published,
                   pub_count, cmd_writes, cfg_vars, sensor_vars, thread_vars>>

Next ==
    \/ run
    \/ update
    \/ \E stage \in {"encoder", "policy"} : update_raises(stage)
    \/ \E msg \in RobotStateMsgs : robot_state_callback(msg)
    \/ \E msg \in ImuMsgs : imu_data_callback(msg)
    \/ \E msg \in SensorJoyMsgs : sensor_joy_callback(msg)

Spec == Init /\ [][Next]_vars

(***************************************************************************)
(* The two threads, statement by statement.  The control thread executes   *)
(* update(); the transport thread executes one callback at a time.  A      *)
(* thread switch can fall between any two statements: a statement is one   *)
(* step.                                                                   *)
(***************************************************************************)
\* The k-th assignment of imu_data_callback (lines 405-413), k = 1 .. 7.
imu_statement(k, msg, imu) ==
    CASE k = 1 -> [imu EXCEPT !.stamp = msg.stamp]
      [] k = 2 -> [imu EXCEPT !.acc = msg.acc]
      [] k = 3 -> [imu EXCEPT !.gyro = msg.gyro]
      [] k = 4 -> [imu EXCEPT !.quat[0] = msg.quat[1]]
      [] k = 5 -> [imu EXCEPT !.quat[1] = msg.quat[2]]
      [] k = 6 -> [imu EXCEPT !.quat[2] = msg.quat[3]]
      [] OTHER -> [imu EXCEPT !.quat[3] = msg.quat[0]]

\* The k-th assignment of sensor_joy_callback (lines 417-419), k = 1 .. 3.
joy_statement(k, msg, cmds) ==
    CASE k = 1 -> [cmds EXCEPT ![0] = RMul(msg.axes[1], Rat(1, 2))]
      [] k = 2 -> [cmds EXCEPT ![1] = RMul(msg.axes[0], Rat(1, 2))]
      [] OTHER -> [cmds EXCEPT ![2] = RMul(msg.axes[2], Rat(1, 2))]

\* A bound of the statement-level model: in one run only one device
\* sends, so the data of the other two are those of construction.
OnlyRobotStateSends == imu_data = InitImuData /\ commands = ZeroVec(3)
OnlyImuSends == robot_state = InitRobotState /\ commands = ZeroVec(3)
OnlyJoySends == robot_state = InitRobotState /\ imu_data = InitImuData

\* robot_state_callback is one assignment of a reference.
thread_robot_state_callback(msg) ==
    /\ transport.kind = "none"
    /\ OnlyRobotStateSends
    /\ robot_state_callback(msg)

\* The transport calls imu_data_callback, which executes its first
\* assignment.
thread_imu_data_callback(msg) ==
    /\ ~terminated
    /\ transport.kind = "none"
    /\ OnlyImuSends
    /\ deliveries < MaxDeliveries
    /\ imu_data' = imu_statement(1, msg, imu_data)
    /\ transport' = [kind |-> "imu", step |-> 1, msg |-> msg]
    /\ deliveries' = deliveries + 1
    /\ UNCHANGED <<robot_state, commands, cfg_vars, queue_vars, loop_vars, pc,
                   commands_start, terminated>>

\* The next assignment of the imu_data_callback in progress.
thread_imu_data_statement ==
    /\ ~terminated
    /\ transport.kind = "imu"
    /\ LET k == transport.step + 1
       IN  /\ imu_data' = imu_statement(k, transport.msg, imu_data)
           /\ transport' = IF k = 7 THEN NoCallback ELSE [transport EXCEPT !.step = k]
    /\ UNCHANGED <<robot_state, commands, deliveries, cfg_vars, queue_vars,
                   loop_vars, pc, commands_start, terminated>>

thread_sensor_joy_callback(msg) ==
    /\ ~terminated
    /\ transport.kind = "none"
    /\ OnlyJoySends
    /\ deliveries < MaxDeliveries
    /\ commands' = joy_statement(1, msg, commands)
    /\ transport' = [kind |-> "joy", step |-> 1, msg |-> msg]
    /\ deliveries' = deliveries + 1
    /\ UNCHANGED <<robot_state, imu_data, cfg_vars, queue_vars, loop_vars, pc,
                   commands_start, terminated>>

thread_sensor_joy_statement ==
    /\ ~terminated
    /\ transport.kind = "joy"
    /\ LET k == transport.step + 1
       IN  /\ commands' = joy_statement(k, transport.msg, commands)
           /\ transport' = IF k = 3 THEN NoCallback ELSE [transport EXCEPT !.step = k]
    /\ UNCHANGED <<robot_state, imu_data, deliveries, cfg_vars, queue_vars,
                   loop_vars, pc, commands_start, terminated>>

\* Mutant of AfterDispatch: the dispatch is followed by the publication.
AfterDispatchPublish == "publish"

\* The statement after the dispatch is the increment of line 382.
AfterDispatch == "count"

\* update() in STAND: the dispatch and handle_stand_mode (lines 376-377).
thread_update_stand ==
    /\ pc = "idle"
    /\ running
    /\ ~terminated
    /\ loop_count < MaxThreadTicks
    /\ mode = "STAND"
    /\ handle_stand_mode
    /\ commands_start' = commands
    /\ pc' = AfterDispatch
    /\ UNCHANGED <<loop_count, published, pub_count, default_joint_angles,
                   gait_command, running, cfg_vars, sensor_vars, transport,
                   terminated>>

\* update() in WALK: the dispatch and line 187, the copy of the robot state.
thread_walk_copy_robot_state ==
    /\ pc = "idle"
    /\ running
    /\ ~terminated
    /\ loop_count < MaxThreadTicks
    /\ mode = "WALK"
    /\ robot_state_tmp' = align_robot_state(robot_state)
    /\ commands_start' = commands
    /\ pc' = "copy_imu"
    /\ UNCHANGED <<mode, loop_count, stand_percent, default_joint_angles, actions,
                   last_actions, observations, gait_command, robot_cmd,
                   imu_data_tmp, running, published, pub_count, encoder_input,
                   policy_input, cmd_writes, infer_log, cfg_vars, queue_vars,
                   sensor_vars, transport, terminated>>

\* Line 188, the copy of the IMU data.
thread_walk_copy_imu_data ==
    /\ pc = "copy_imu"
    /\ imu_data_tmp' = imu_data
    /\ pc' = "compute"
    /\ UNCHANGED <<mode, loop_count, stand_percent, default_joint_angles, actions,
                   last_actions, observations, gait_command, robot_cmd,
                   robot_state_tmp, running, published, pub_count, encoder_input,
                   policy_input, cmd_writes, infer_log, cfg_vars, queue_vars,
                   sensor_vars, transport, commands_start, terminated>>

\* Mutant of TickJointState: the shared robot state, read again.
TickJointStateLive == align_robot_state(robot_state)

\* The joint state lines 200-201 and 273-274 read: self.robot_state_tmp.
TickJointState == robot_state_tmp

\* Lines 190-221: the observation, the inference and the joint loop.
thread_walk_compute ==
    /\ pc = "compute"
    /\ WalkBody(TickJointState, imu_data_tmp)
    /\ pc' = AfterDispatch
    /\ UNCHANGED <<robot_state_tmp, imu_data_tmp, loop_count, published,
                   pub_count, default_joint_angles, gait_command, running,
                   cfg_vars, sensor_vars, transport, commands_start, terminated>>

\* Line 382: self.loop_count += 1
thread_update_count ==
    /\ pc = "count"
    /\ loop_count' = loop_count + 1
    /\ pc' = "publish"
    /\ UNCHANGED <<mode, stand_percent, default_joint_angles, actions,
                   last_actions, observations, gait_command, robot_cmd,
                   robot_state_tmp, imu_data_tmp, running, published, pub_count,
                   encoder_input, policy_input, cmd_writes, infer_log, cfg_vars,
                   queue_vars, sensor_vars, transport, commands_start, terminated>>

\* Line 385: self.robot.publishRobotCmd(self.robot_cmd)
thread_update_publish ==
    /\ pc = "publish"
    /\ published' = robot_cmd
    /\ pub_count' = pub_count + 1
    /\ pc' = "idle"
    /\ UNCHANGED <<mode, loop_count, stand_percent, default_joint_angles, actions,
                   last_actions, observations, gait_command, robot_cmd,
                   robot_state_tmp, imu_data_tmp, running, encoder_input,
                   policy_input, cmd_writes, infer_log, cfg_vars, queue_vars,
                   sensor_vars, transport, commands_start, terminated>>

NextThreads ==
    \/ run
    \/ thread_update_stand
    \/ thread_walk_copy_robot_state
    \/ thread_walk_copy_imu_data
    \/ thread_walk_compute
    \/ thread_update_count
    \/ thread_update_publish
    \/ \E msg \in RobotStateMsgs : thread_robot_state_callback(msg)
    \/ \E msg \in ImuMsgs : thread_imu_data_callback(msg)
    \/ thread_imu_data_statement
    \/ \E msg \in SensorJoyMsgs : thread_sensor_joy_callback(msg)
    \/ thread_sensor_joy_statement

\* The threads are followed in the configuration with the shortest stand
\* phase, N = 2 ticks, and an inference on every second tick.
InitThreads ==
    /\ Init
    /\ stand_duration = Rat(1, 2)
    /\ decimation = 2

SpecThreads == InitThreads /\ [][NextThreads]_vars


(***************************************************************************)
(* Properties.                                                             *)
(***************************************************************************)
\* A step of update(), and one taken in WALK mode.
Tick == running /\ loop_count' = loop_count + 1
WalkTick == Tick /\ mode = "WALK"

\* The state right after a WALK tick: the tick wrote the logged commands
\* (a tick whose inference raised wrote and published nothing).
AfterWalkTick == mode = "WALK" /\ cmd_writes # <<>> /\ ~terminated

\* N = stand_duration * loop_frequency, an integer in every configuration.
StandTicks == RMul(stand_duration, RInt(loop_frequency))[1]

WrittenJoints(writes) == {writes[k].joint : k \in DOMAIN writes}
WrittenSlots(writes) == {writes[k].slot : k \in DOMAIN writes}

\* C1: the mode is STAND when the loop begins, and a step never takes it
\* from WALK to anything but WALK: the only change is STAND -> WALK.
C1_ModeMonotone ==
    [][ /\ (~running /\ running') => mode' = "STAND"
        /\ mode = "WALK" => mode' = "WALK"
        /\ mode' \in {"STAND", "WALK"} ]_vars

\* Several WALK ticks, some with and some without inference, have run.
C1_Witness == mode = "WALK" /\ Len(infer_log) >= 2 /\ loop_count = MaxTicks

\* The PD-law torque of target position p at measured q, dq.
PDTorque(p, q, dq) == RSub(RMul(stiffness, RSub(p, q)), RMul(damping, dq))

\* C2: after every WALK tick, for every joint i the target position written
\* for it is actions[i] * action_scale_pos + q0[i], it is the published
\* position of its slot, and its PD torque against the tick's snapshot
\* (robot_state_tmp) is within user_torque_limit in magnitude.
C2_TorqueBounded ==
    AfterWalkTick =>
        /\ WrittenJoints(cmd_writes) = Joints
        /\ \A k \in DOMAIN cmd_writes :
              LET w == cmd_writes[k]
              IN  /\ w.position = RAdd(RMul(actions[w.joint], action_scale_pos),
                                       init_joint_angles[w.joint])
                  /\ published.q[w.slot] = w.position
                  /\ RLe(RAbs(PDTorque(w.position, robot_state_tmp.q[w.joint],
                                       robot_state_tmp.dq[w.joint])),
                         user_torque_limit)

\* A WALK tick in which the clamp moved an action strictly inside the
\* symmetric clip range (the torque bound was the binding one).
C2_Witness ==
    /\ AfterWalkTick
    /\ robot_state_tmp.q[0] # Zero
    /\ \E i \in Joints : RLt(RAbs(actions[i]), clip_actions)
                          /\ RAbs(PDTorque(published.q[i], robot_state.q[i],
                                           robot_state.dq[i])) = user_torque_limit

AllQueues ==
    <<base_ang_vel_queue, projected_gravity_queue, joint_positions_queue,
      joint_velocities_queue, actions_queue, scaled_commands_queue,
      gait_phase_queue, gait_command_queue>>

\* C3: all eight history buffers always have the same number of entries;
\* once an observation has been assembled each holds exactly
\* history_length entries; and the Observation always has the length
\* obs_step_size * history_length + latent_size.
C3_HistoryFull ==
    /\ \A a, b \in 1 .. 8 : Len(AllQueues[a]) = Len(AllQueues[b])
    /\ infer_log # <<>> => \A a \in 1 .. 8 : Len(AllQueues[a]) = history_length
    /\ infer_log = <<>> => \A a \in 1 .. 8 : Len(AllQueues[a]) = 0
    /\ Len(observations) = obs_step_size * history_length + latent_size

\* More observation ticks than the buffers hold entries.
C3_Witness == Len(infer_log) > history_length /\ Len(actions_queue) = history_length

\* C4: in every WALK tick, the slot written for logical joint i is the
\* physical index whose measurement (q, dq, tau) the aligned snapshot holds
\* at i, and the writes hit every joint and every slot.
C4_RemapInverse ==
    [][ WalkTick =>
          /\ WrittenJoints(cmd_writes') = Joints
          /\ WrittenSlots(cmd_writes') = Joints
          /\ \A k \in DOMAIN cmd_writes' :
                LET w == cmd_writes'[k]
                IN  /\ robot_state_tmp'.q[w.joint] = robot_state.q[w.slot]
                    /\ robot_state_tmp'.dq[w.joint] = robot_state.dq[w.slot]
                    /\ robot_state_tmp'.tau[w.joint] = robot_state.tau[w.slot] ]_vars

\* A WALK tick on a measured state whose entries are pairwise distinct.
C4_Witness ==
    /\ AfterWalkTick
    /\ \A i, j \in Joints : i # j => robot_state_tmp.q[i] # robot_state_tmp.q[j]

ScenarioA_raw == Vec6(Rat(1, 10), Rat(1, 5), Rat(3, 10), Rat(2, 5), Rat(1, 2), Rat(3, 5))
ScenarioA_aligned == Vec6(Rat(1, 10), Rat(2, 5), Rat(1, 5), Rat(1, 2), Rat(3, 10), Rat(3, 5))

\* C5: the alignment a WALK tick takes of the raw state has
\* aligned[1] = raw[3], aligned[2] = raw[1], aligned[3] = raw[4],
\* aligned[4] = raw[2] and aligned[k] = raw[k] for k = 0 and k >= 5, alike
\* for q, dq and tau; the raw state is unchanged; raw q = [0.1 .. 0.6]
\* aligns to [0.1, 0.4, 0.2, 0.5, 0.3, 0.6].
C5_InboundAlignment ==
    [][ WalkTick =>
          /\ \A f \in {"q", "dq", "tau"} :
                /\ robot_state_tmp'[f][1] = robot_state[f][3]
                /\ robot_state_tmp'[f][2] = robot_state[f][1]
                /\ robot_state_tmp'[f][3] = robot_state[f][4]
                /\ robot_state_tmp'[f][4] = robot_state[f][2]
                /\ \A k \in Joints : (k = 0 \/ k >= 5) =>
                      robot_state_tmp'[f][k] = robot_state[f][k]
          /\ robot_state' = robot_state
          /\ robot_state.q = ScenarioA_raw => robot_state_tmp'.q = ScenarioA_aligned ]_vars

\* A WALK tick has aligned the raw state q = [0.1 .. 0.6].
C5_Witness ==
    AfterWalkTick /\ robot_state.q = ScenarioA_raw /\ robot_state_tmp.q = ScenarioA_aligned

\* The slot the claim as written gives joint index j.
C6_ClaimedSlot(j) == CASE j = 1 -> 3 [] j = 2 -> 4 [] j = 3 -> 1 [] j = 4 -> 2 [] OTHER -> j

\* C6 as written: every write stores joint 1 in slot 3, 2 in slot 4, 3 in
\* slot 1, 4 in slot 2, and 0 and every index >= 5 in their own slot.
C6_Original ==
    \A k \in DOMAIN cmd_writes : cmd_writes[k].slot = C6_ClaimedSlot(cmd_writes[k].joint)

\* C6 amended: every write, in STAND and in WALK, stores joint 1 in slot 3,
\* joint 2 in slot 1, joint 3 in slot 4 and joint 4 in slot 2; joint 0 and
\* every joint >= 5 in their own slot; the command's slot holds the
\* position written.
C6_OutboundSlots ==
    \A k \in DOMAIN cmd_writes :
        LET w == cmd_writes[k]
        IN  /\ w.joint = 1 => w.slot = 3
            /\ w.joint = 2 => w.slot = 1
            /\ w.joint = 3 => w.slot = 4
            /\ w.joint = 4 => w.slot = 2
            /\ (w.joint = 0 \/ w.joint >= 5) => w.slot = w.joint
            /\ robot_cmd.q[w.slot] = w.position

\* Commands have been written in STAND and in WALK ticks.
C6_Witness ==
    /\ AfterWalkTick
    /\ WrittenJoints(cmd_writes) = Joints
    /\ \A i, j \in Joints : i # j => robot_cmd.q[i] # robot_cmd.q[j]


\* C7 as written: stand_percent is 0 when the loop starts and grows by 1/N
\* on each STAND tick, so that after k ticks in STAND it is k/N; it reaches 1
\* after N interpolating ticks and the mode is WALK from tick N + 1 on, not
\* before.
C7_Original ==
    running =>
        /\ pub_count = 0 => stand_percent = Zero
        /\ pub_count <= StandTicks => mode = "STAND" /\ stand_percent = Rat(pub_count, StandTicks)
        /\ pub_count > StandTicks => mode = "WALK"

\* C7 amended: run() has already added 1/N once when the loop starts, so
\* stand_percent is 1/N there and (k + 1)/N after k STAND ticks; it first
\* reaches 1 after exactly N - 1 interpolating STAND ticks, each of which
\* writes every joint; the N-th tick writes nothing and switches the mode
\* to WALK, not earlier and not later.
C7_StandTiming ==
    running =>
        /\ pub_count = loop_count
        /\ pub_count < StandTicks =>
              /\ mode = "STAND"
              /\ stand_percent = Rat(pub_count + 1, StandTicks)
              /\ pub_count >= 1 => Len(cmd_writes) = joint_num
        /\ pub_count = StandTicks - 1 => stand_percent = One
        /\ pub_count < StandTicks - 1 => RLt(stand_percent, One)
        /\ pub_count = StandTicks => mode = "WALK" /\ cmd_writes = <<>>
        /\ pub_count >= StandTicks => mode = "WALK" /\ stand_percent = One

\* The switching tick of a run with N = 3 has just run.
C7_Witness == running /\ StandTicks = 3 /\ pub_count = StandTicks /\ mode = "WALK"

\* C8 as written: the last command published in STAND (the one after which
\* stand_percent is no longer below 1) holds, for every joint, the
\* configured default joint angle in the joint's slot.
C8_Claim ==
    (running /\ mode = "STAND" /\ ~StandInterpolates) =>
        /\ WrittenJoints(cmd_writes) = Joints
        /\ \A k \in DOMAIN cmd_writes :
              LET w == cmd_writes[k]
              IN  /\ w.position = init_state[w.joint]
                  /\ published.q[w.slot] = w.position

\* C9: a WALK tick runs the pipeline (observation pushed, encoder and policy
\* called, action clipped: the stored action is the torque clamp of a value
\* in the clip range) if and only if loop_count is a multiple of
\* decimation; consecutive inference ticks are exactly decimation apart;
\* and every WALK tick writes a target for every joint and every slot and
\* publishes the command.
C9_Decimation ==
    [][ WalkTick =>
          /\ (infer_log' # infer_log) <=> (loop_count % decimation = 0)
          /\ (policy_input' # policy_input \/ queue_vars' # queue_vars
              \/ observations' # observations \/ encoder_input' # encoder_input)
                => loop_count % decimation = 0
          /\ loop_count % decimation = 0 =>
                /\ infer_log' = Append(infer_log, loop_count)
                /\ policy_input' = observations'
                /\ Len(encoder_input') = obs_step_size * history_length
                /\ \A i \in Joints :
                      actions'[i] = ClampAction(Clip(actions'[i], RNeg(clip_actions),
                                                     clip_actions),
                                                robot_state_tmp'.q[i],
                                                robot_state_tmp'.dq[i],
                                                init_joint_angles[i])
          /\ \A k \in 1 .. (Len(infer_log') - 1) :
                infer_log'[k + 1] - infer_log'[k] = decimation
          /\ WrittenJoints(cmd_writes') = Joints
          /\ WrittenSlots(cmd_writes') = Joints
          /\ Len(cmd_writes') = joint_num
          /\ published' = robot_cmd'
          /\ pub_count' = pub_count + 1 ]_vars

\* Two inference ticks three ticks apart, with the ticks between them run.
C9_Witness == decimation = 3 /\ Len(infer_log) >= 2 /\ mode = "WALK"

\* C10 as written: once an inference tick has run, a WALK tick that runs no
\* inference leaves the stored action of every joint as the inference tick
\* left it.
C10_Claim ==
    [][ (WalkTick /\ infer_log # <<>> /\ loop_count % decimation # 0)
            => actions' = actions ]_vars

\* The bounds the joint loop derives for one joint's action.
LowerBound(q, dq, q0) ==
    RDiv(RAdd(RSub(q, q0), RDiv(RSub(RMul(damping, dq), user_torque_limit), stiffness)),
         action_scale_pos)
UpperBound(q, dq, q0) ==
    RDiv(RAdd(RSub(q, q0), RDiv(RAdd(RMul(damping, dq), user_torque_limit), stiffness)),
         action_scale_pos)

\* [-clip_actions, clip_actions] lies inside the bounds of joint i in the
\* tick's snapshot.
ClipIsTighter(i) ==
    /\ RLe(LowerBound(robot_state_tmp.q[i], robot_state_tmp.dq[i], init_joint_angles[i]),
           RNeg(clip_actions))
    /\ RLe(clip_actions,
           UpperBound(robot_state_tmp.q[i], robot_state_tmp.dq[i], init_joint_angles[i]))

\* C15 as written: after every WALK tick, for every joint whose bounds of
\* that tick contain [-clip_actions, clip_actions], the action used for the
\* joint's command lies in [-clip_actions, clip_actions].
C15_Claim ==
    AfterWalkTick =>
        \A i \in Joints : ClipIsTighter(i) => RLe(RAbs(actions[i]), clip_actions)

\* What the rounding of a float32 below 2^9 can take from the fraction.
GaitTolerance == Rat(1, 10000)

\* C16 as written: the fraction compute_gait_phase computes at tick t, for
\* the integer loop frequency f and gait frequency g, lies in [0, 1), is
\* ((t g) mod f) / f to within GaitTolerance, is 0 exactly when t g is a
\* multiple of f (and then (sin, cos) = (0, 1), as at t = 1250, f = 500,
\* g = 2), and is the same when t g has advanced by f.
C16_Claim ==
    gait_index # NoGaitIndex =>
        LET t == gait_index.t
            f == loop_frequency
            g == gait_command[0][1]
            frac == gait_index.frac
        IN  /\ RLe(Zero, frac) /\ RLt(frac, One)
            /\ RLe(RAbs(RSub(frac, Rat((t * g) % f, f))), GaitTolerance)
            /\ (frac = Zero) <=> ((t * g) % f = 0)
            /\ (t * g) % f = 0 =>
                  compute_gait_phase(t) = [i \in 0 .. 1 |-> IF i = 0 THEN Zero ELSE One]
            /\ (t = 1250 /\ f = 500) => (g = 2 /\ frac = Zero)
            /\ f % g = 0 => GaitFraction(t + f \div g, f, gait_command[0]) = frac

\* The step in which an ONNX call raised: the pipeline of a tick began and
\* the tick was not counted.
RaisingStep == infer_log' # infer_log /\ loop_count' = loop_count

\* C17: the step in which the encoder or the policy call raises publishes
\* nothing, does not increment the tick counter, writes no command and no
\* action, and ends the loop; nothing is published, counted or written
\* afterwards.
C17_FailureFatal ==
    [][ /\ RaisingStep =>
              /\ terminated'
              /\ pub_count' = pub_count /\ published' = published
              /\ robot_cmd' = robot_cmd /\ cmd_writes' = cmd_writes
              /\ actions' = actions /\ last_actions' = last_actions
              /\ mode' = mode
        /\ terminated =>
              /\ terminated'
              /\ pub_count' = pub_count /\ published' = published
              /\ loop_count' = loop_count /\ robot_cmd' = robot_cmd
              /\ infer_log' = infer_log ]_vars

\* A call raised in a WALK tick after an inference tick had succeeded.
C17_Witness ==
    /\ terminated /\ mode = "WALK"
    /\ Len(infer_log) >= 2
    /\ pub_count = loop_count /\ loop_count = infer_log[Len(infer_log)]
    /\ published # <<>>

\* C18: the tick that switches the mode from STAND to WALK writes no joint
\* target, leaves stand_percent, the observation, the inputs of the two
\* networks, the actions and the history buffers as they were, and
\* publishes the command the preceding tick published.
C18_SwitchTickOnlySwitches ==
    [][ (Tick /\ mode = "STAND" /\ mode' = "WALK") =>
          /\ cmd_writes' = <<>>
          /\ robot_cmd' = robot_cmd
          /\ stand_percent' = stand_percent
          /\ observations' = observations
          /\ encoder_input' = encoder_input /\ policy_input' = policy_input
          /\ infer_log' = infer_log
          /\ actions' = actions /\ last_actions' = last_actions
          /\ queue_vars' = queue_vars
          /\ robot_state_tmp' = robot_state_tmp /\ imu_data_tmp' = imu_data_tmp
          /\ pub_count >= 1 => published' = published
          /\ pub_count' = pub_count + 1 ]_vars

\* The switching tick has just republished the last STAND command, which
\* is not the zero command of construction.
C18_Witness ==
    /\ running /\ mode = "WALK" /\ cmd_writes = <<>>
    /\ pub_count = StandTicks
    /\ published = robot_cmd /\ published.q # ZeroVec(joint_num)

\* C19 as written: at every inference tick the history part of the vector
\* handed to the policy is the vector handed to the encoder, every element
\* of it within [-clip_observations, clip_observations].
C19_Claim ==
    [][ (WalkTick /\ RunsInference) =>
          \A k \in 1 .. (obs_step_size * history_length) :
              /\ policy_input'[k] = encoder_input'[k]
              /\ RLe(RAbs(policy_input'[k]), clip_observations) ]_vars

\* The eight values of a sample, in the order of AllQueues.
SampleSeq(sample) ==
    <<sample.base_ang_vel, sample.projected_gravity, sample.joint_positions,
      sample.joint_velocities, sample.actions, sample.scaled_commands,
      sample.gait_phase, sample.gait_command>>

\* C20: an inference tick leaves each of the eight buffers with exactly
\* history_length entries, the newest being the tick's sample; after the
\* first inference tick all entries are that sample; after a later one the
\* entries before the newest are the former entries but the oldest, in
\* order.  Hence after the k-th inference tick the entry at position i
\* (0 = oldest) is the sample of inference tick max(1, k - N + 1 + i).
C20_FifoWindow ==
    [][ (WalkTick /\ RunsInference) =>
          LET sample == SampleSeq(ObsSample(align_robot_state(robot_state), imu_data))
              N == history_length
          IN  \A a \in 1 .. 8 :
                /\ Len(AllQueues'[a]) = N
                /\ AllQueues'[a][N] = sample[a]
                /\ IF infer_log = <<>>
                   THEN \A i \in 1 .. N : AllQueues'[a][i] = sample[a]
                   ELSE \A i \in 1 .. (N - 1) : AllQueues'[a][i] = AllQueues[a][i + 1] ]_vars

\* More inference ticks than the buffers hold entries, the last two on
\* different samples.
C20_Witness ==
    /\ Len(infer_log) > history_length
    /\ joint_positions_queue[1] # joint_positions_queue[history_length]
    /\ actions_queue[1] # actions_queue[history_length]

(***************************************************************************)
(* Properties of the threads (SpecThreads).                                *)
(***************************************************************************)
Last(q) == q[Len(q)]

\* The step of the control thread that runs lines 190-221 of a WALK tick,
\* and such a step of a tick that runs the inference.
ComputeStep == pc = "compute" /\ pc' # pc
InferenceStep == ComputeStep /\ RunsInference

\* The control thread is in a WALK tick whose joint loop has run.
WalkComputed == mode = "WALK" /\ pc \in {"count", "publish"} /\ cmd_writes # <<>>

\* C11: the snapshot robot_state_tmp is taken only by the first statement
\* of a WALK tick, as the aligned copy of the shared state of that moment
\* (so of the last message delivered before it); a delivery later in the
\* tick changes neither the snapshot, the observation, the history nor the
\* command; and the joint loop and the observation both use the snapshot:
\* the joint samples pushed are those of the snapshot, and every target
\* written is the clamped action of the snapshot's q and dq, its PD torque
\* against the snapshot within the limit.
C11_SnapshotUsed ==
    [][ /\ robot_state_tmp' # robot_state_tmp =>
              /\ pc = "idle" /\ mode = "WALK"
              /\ robot_state_tmp' = align_robot_state(robot_state)
        /\ robot_state' # robot_state =>
              /\ robot_state_tmp' = robot_state_tmp
              /\ observations' = observations
              /\ queue_vars' = queue_vars
              /\ actions' = actions
              /\ robot_cmd' = robot_cmd
              /\ published' = published
        /\ InferenceStep =>
              /\ Last(joint_positions_queue') =
                    [i \in Joints |-> RMul(RSub(robot_state_tmp.q[i], init_joint_angles[i]),
                                            obs_scale_dof_pos)]
              /\ Last(joint_velocities_queue') =
                    Scale(robot_state_tmp.dq, obs_scale_dof_vel)
        /\ ComputeStep =>
              /\ robot_state_tmp' = robot_state_tmp
              /\ \A k \in DOMAIN cmd_writes' :
                    LET w == cmd_writes'[k]
                        a == actions'[w.joint]
                    IN  /\ w.position = RAdd(RMul(a, action_scale_pos),
                                             init_joint_angles[w.joint])
                        /\ a = ClampAction(a, robot_state_tmp.q[w.joint],
                                           robot_state_tmp.dq[w.joint],
                                           init_joint_angles[w.joint])
                        /\ RLe(RAbs(PDTorque(w.position, robot_state_tmp.q[w.joint],
                                             robot_state_tmp.dq[w.joint])),
                               user_torque_limit) ]_vars

\* An inference tick has run its joint loop on a snapshot that a delivery
\* made stale in between: the shared state is no longer the one copied.
C11_Witness ==
    /\ WalkComputed
    /\ pc = "count"
    /\ infer_log # <<>> /\ Last(infer_log) = loop_count
    /\ align_robot_state(robot_state) # robot_state_tmp
    /\ robot_state_tmp # InitRobotState

\* What imu_data_callback stores of a message.
StoredImu(msg) ==
    [stamp |-> msg.stamp, acc |-> msg.acc, gyro |-> msg.gyro,
     quat |-> Vec4(msg.quat[1], msg.quat[2], msg.quat[3], msg.quat[0])]

\* C12 as written: the IMU snapshot of a WALK tick is, in all its fields,
\* the data of one IMU message (or the data of construction, when no
\* message has been delivered).
C12_Claim ==
    imu_data_tmp \in {InitImuData} \cup {StoredImu(m) : m \in ImuMsgs}

\* What sensor_joy_callback stores of a message.
StoredJoy(msg) ==
    Vec3(RMul(msg.axes[1], Rat(1, 2)), RMul(msg.axes[0], Rat(1, 2)),
         RMul(msg.axes[2], Rat(1, 2)))

\* np.dot(command_scaler, cmds)
ScaledCommands(cmds) ==
    Vec3(RMul(lin_vel_x, cmds[0]), RMul(lin_vel_y, cmds[1]), RMul(ang_vel_yaw, cmds[2]))

\* C13 as written: the command vector an inference tick pushes is the
\* (scaled) vector self.commands held when the tick began, and its three
\* components are those of one input-device message (or the zeros of
\* construction).
C13_Claim ==
    [][ InferenceStep =>
          /\ Last(scaled_commands_queue') = ScaledCommands(commands_start)
          /\ \E c \in {ZeroVec(3)} \cup {StoredJoy(m) : m \in SensorJoyMsgs} :
                Last(scaled_commands_queue') = ScaledCommands(c) ]_vars

\* C14: in every tick, STAND or WALK, the counter is incremented by exactly
\* 1 after the dispatch and before the publication, and the command is
\* published exactly once, after the increment; between two ticks the
\* counter equals the number of publications.
C14_TickOrder ==
    [][ /\ loop_count' # loop_count =>
              /\ pc = "count"
              /\ loop_count' = loop_count + 1
              /\ pub_count' = pub_count /\ pub_count = loop_count
        /\ pub_count' # pub_count =>
              /\ pc = "publish" /\ pc' = "idle"
              /\ pub_count' = pub_count + 1
              /\ loop_count' = loop_count /\ loop_count = pub_count + 1
              /\ published' = robot_cmd
        /\ (running /\ pc = "idle" /\ pc' # pc) =>
              /\ loop_count' = loop_count /\ pub_count' = pub_count
              /\ pub_count = loop_count
        /\ (pc # "idle" /\ pc' = "idle") => pub_count' = loop_count
        /\ (pc = "count" /\ pc' # pc) => pc' = "publish" /\ loop_count' # loop_count
        /\ (mode' # mode \/ robot_cmd' # robot_cmd \/ stand_percent' # stand_percent)
              => (loop_count' = loop_count /\ pub_count' = pub_count) ]_vars

\* Ticks of both modes have been completed.
C14_Witness ==
    /\ pc = "idle" /\ mode = "WALK" /\ cmd_writes # <<>>
    /\ pub_count = MaxThreadTicks /\ loop_count = pub_count

\* C21 as written: in every configuration the pipeline has run by the end of
\* the first WALK tick, so every WALK tick publishes a command derived from
\* a policy output and none from the initial all-zero action vector.
C21_Claim ==
    [][ WalkTick => infer_log' # <<>> ]_vars

\* The fields of a command other than the target positions.
FixedCmdFields == {"mode", "dq", "tau", "Kp", "Kd"}

\* The writes of the tick that went to position slot s.
WritesTo(s) == {k \in DOMAIN cmd_writes : cmd_writes[k].slot = s}

\* C22: the command keeps, in each field other than q, the value the
\* constructor gave it (mode, dq and tau 0, Kp the stiffness, Kd the
\* damping), and so does every published command, in STAND and in WALK; a
\* WALK tick writes each of the joint_num >= 5 position slots exactly once.
C22_OnlyPositions ==
    /\ joint_num >= 5
    /\ \A f \in FixedCmdFields : robot_cmd[f] = InitRobotCmd[f]
    /\ pub_count > 0 =>
          /\ published.mode = ZeroVec(joint_num)
          /\ published.dq = ZeroVec(joint_num)
          /\ published.tau = ZeroVec(joint_num)
          /\ \A i \in Joints : published.Kp[i] = stiffness /\ published.Kd[i] = damping
    /\ AfterWalkTick =>
          /\ Len(cmd_writes) = joint_num
          /\ \A s \in Joints : Cardinality(WritesTo(s)) = 1

\* A WALK tick has been published after STAND ticks, and the ticks have
\* moved every target position away from the constructor's 0.
C22_Witness ==
    /\ AfterWalkTick
    /\ pub_count > StandTicks
    /\ \A i \in Joints : published.q[i] # Zero

====
